---------------------------- MODULE Spec2Model ----------------------------
(***************************************************************************)
(* A model of the proof-of-work blockchain node of src/main.rs: the block  *)
(* digest and its encodings, the miner, the block and chain validators of  *)
(* App, the chain chooser, and the operations a node applies to its chain. *)
(*                                                                         *)
(* Strings that the code inspects character by character (hashes) are      *)
(* sequences of one-character strings; payloads are opaque strings.        *)
(***************************************************************************)
EXTENDS Integers, Sequences, FiniteSets, Bags, TLC

VARIABLES blocks, halted, last, pc, search, responses, published

vars == <<blocks, halted, last, pc, search, responses, published>>

\* the state of main and of its event loop
loopVars == <<pc, search, responses, published>>

(***************************************************************************)
(* Bounds of the model.                                                    *)
(***************************************************************************)
\* the longest chain a node mines
MaxChain == 3
\* the clock values Utc::now().timestamp() may return are 1..MaxTime
MaxTime == 2

Nodes == {"n1", "n2"}

Timestamps == 1..MaxTime

(***************************************************************************)
(* Program constants.                                                      *)
(***************************************************************************)
\* a difficulty of one digit
DIFFICULTY_PREFIX_One == <<"0">>

\* const DIFFICULTY_PREFIX: &str = "00";
DIFFICULTY_PREFIX == <<"0", "0">>

\* the nonce of the hard-coded genesis block
GenesisNonce == 2836

\* the hash of the hard-coded genesis block
GenesisHash ==
    <<"0","0","0","0","f","8","1","6","a","8","7","f","8","0","6","b",
      "b","0","0","7","3","d","c","f","0","2","6","a","6","4","f","b",
      "4","0","c","9","4","6","b","5","a","b","e","e","2","5","7","3",
      "7","0","2","8","2","8","6","9","4","d","5","b","4","c","4","3">>

\* String::from("genesis")
GenesisPrev == <<"g","e","n","e","s","i","s">>

GenesisData == "genesis!"

NewBlockData == "new block data!"

\* a SHA-256 digest has 32 bytes
DigestLen == 32

(***************************************************************************)
(* hex::encode, hex::decode and format!("{:b}").                           *)
(***************************************************************************)
LowerHex == <<"0","1","2","3","4","5","6","7","8","9","a","b","c","d","e","f">>

UpperHex == <<"0","1","2","3","4","5","6","7","8","9","A","B","C","D","E","F">>

HexChars == {LowerHex[i] : i \in 1..16} \cup {UpperHex[i] : i \in 1..16}

IsHexChar(c) == c \in HexChars

\* the value of each hex digit; hex::decode accepts both cases
HexValues ==
    [c \in HexChars |-> (CHOOSE i \in 1..16 : LowerHex[i] = c \/ UpperHex[i] = c) - 1]

HexVal(c) == HexValues[c]

\* hex::encode: two lower-case digits per byte, high nibble first
HexEncode(bytes) ==
    [i \in 1..(2 * Len(bytes)) |->
        IF i % 2 = 1 THEN LowerHex[(bytes[(i + 1) \div 2] \div 16) + 1]
                     ELSE LowerHex[(bytes[i \div 2] % 16) + 1]]

\* hex::decode: an error on an odd length or on a character that is no hex digit
HexDecodeOk(s) == Len(s) % 2 = 0 /\ \A i \in 1..Len(s) : IsHexChar(s[i])

HexDecode(s) ==
    [i \in 1..(Len(s) \div 2) |-> 16 * HexVal(s[2 * i - 1]) + HexVal(s[2 * i])]

\* format!("{:08b}", c): the numeral of a byte padded to eight digits
ByteToBinary_Padded(c) ==
    [i \in 1..8 |-> IF (c \div (2 ^ (8 - i))) % 2 = 0 THEN "0" ELSE "1"]

\* format!("{:b}", c): the binary numeral of a byte, without leading zeros
RECURSIVE ByteToBinary(_)
ByteToBinary(c) ==
    IF c < 2 THEN <<IF c = 0 THEN "0" ELSE "1">>
    ELSE ByteToBinary(c \div 2) \o <<IF c % 2 = 0 THEN "0" ELSE "1">>

\* the numeral of every byte, computed once
ByteNumerals == [c \in 0..255 |-> ByteToBinary(c)]

\* the numerals of the bytes from position i on, concatenated
RECURSIVE BinaryFrom(_, _)
BinaryFrom(hash, i) ==
    IF i > Len(hash) THEN <<>> ELSE ByteNumerals[hash[i]] \o BinaryFrom(hash, i + 1)

\* fn hash_to_binary_representation: the per-byte numerals, concatenated
hash_to_binary_representation(hash) == BinaryFrom(hash, 1)

\* str::starts_with
StartsWith(s, prefix) ==
    Len(s) >= Len(prefix) /\ SubSeq(s, 1, Len(prefix)) = prefix

(***************************************************************************)
(* calculate_hash.  SHA-256 over the JSON text of the five fields is       *)
(* modelled by a deterministic function to DigestLen bytes.  The first two *)
(* bytes decide the proof of work; they change with every field, and one   *)
(* nonce in three makes both zero.  The next eight bytes carry the id, the *)
(* timestamp, the nonce, the payload and sums over previous_hash, so that  *)
(* inputs which differ in the id, the timestamp, the nonce or the payload  *)
(* have different digests (no collisions).  The rest is fixed filler.      *)
(***************************************************************************)
CharCode(c) == IF IsHexChar(c) THEN HexVal(c) + 1 ELSE 17

\* the sum of the codes of the characters, each times its position (the
\* size of the bag that holds position i that many times)
StrSum(s) == BagCardinality([i \in 1..Len(s) |-> CharCode(s[i]) * i])

LowerChars == {LowerHex[i] : i \in 1..16}

\* upper-case digits are other characters than lower-case ones to SHA-256
CaseSum(s) == Cardinality({i \in 1..Len(s) : s[i] \notin LowerChars})

DataCode(data) ==
    CASE data = GenesisData  -> 1
      [] data = NewBlockData -> 2
      [] OTHER               -> 3

\* the bytes of a digest that carry none of the fields
Filler == [i \in 1..(DigestLen - 10) |-> (37 * i + 11) % 256]

calculate_hash(id, timestamp, previous_hash, data, nonce) ==
    LET weighted == StrSum(previous_hash)
        class == (5 * id + 2 * timestamp + weighted + DataCode(data) + nonce) % 3
    IN  << IF class = 1 THEN 5 ELSE 0,
           IF class = 2 THEN 7 ELSE 0,
           id % 256,
           timestamp % 256,
           nonce % 256,
           (nonce \div 256) % 256,
           DataCode(data),
           (Len(previous_hash) + 3 * CaseSum(previous_hash)) % 256,
           weighted % 256,
           (weighted \div 256) % 256 >> \o Filler

(***************************************************************************)
(* mine_block: the nonces 0, 1, 2, ... in turn, until the binary form of   *)
(* the digest starts with the difficulty prefix.                           *)
(***************************************************************************)
RECURSIVE MineFrom(_, _, _, _, _)
MineFrom(id, timestamp, previous_hash, data, nonce) ==
    LET hash == calculate_hash(id, timestamp, previous_hash, data, nonce)
        binary_hash == hash_to_binary_representation(hash)
    IN  IF StartsWith(binary_hash, DIFFICULTY_PREFIX)
        THEN [nonce |-> nonce, hash |-> HexEncode(hash)]
        ELSE MineFrom(id, timestamp, previous_hash, data, nonce + 1)

\* mine_block without its loop: the first nonce is returned unchecked
mine_block_FirstNonce(id, timestamp, previous_hash, data) ==
    [nonce |-> 0, hash |-> HexEncode(calculate_hash(id, timestamp, previous_hash, data, 0))]

mine_block(id, timestamp, previous_hash, data) ==
    MineFrom(id, timestamp, previous_hash, data, 0)

\* Block::new; now is the value of Utc::now().timestamp()
Block_new(id, previous_hash, data, now) ==
    LET mined == mine_block(id, now, previous_hash, data)
    IN  [id |-> id, hash |-> mined.hash, timestamp |-> now,
         previous_hash |-> previous_hash, data |-> data, nonce |-> mined.nonce]

\* the block App::genesis builds; now is the value of Utc::now().timestamp()
genesis_block(now) ==
    [id |-> 0, timestamp |-> now, previous_hash |-> GenesisPrev,
     data |-> GenesisData, nonce |-> GenesisNonce, hash |-> GenesisHash]

Last(chain) == chain[Len(chain)]

\* generate_new_block that numbers the new block as the tip is numbered
NextBlock_SameId(self_blocks, now) ==
    Block_new(Last(self_blocks).id, Last(self_blocks).hash, NewBlockData, now)

\* the block App::generate_new_block pushes on self.blocks
NextBlock(self_blocks, now) ==
    Block_new(Last(self_blocks).id + 1, Last(self_blocks).hash, NewBlockData, now)

(***************************************************************************)
(* App::is_block_valid, with self.blocks as a parameter.  The result is    *)
(* "true", "false" or "panic" (an expect that fails).                      *)
(***************************************************************************)
\* is_block_valid without the comparison of the recomputed digest
is_block_valid_NoDigest(self_blocks, block) ==
    IF self_blocks = <<>> THEN "panic"
    ELSE LET latest_block == Last(self_blocks)
         IN  IF block.previous_hash # latest_block.hash THEN "false"
             ELSE IF ~HexDecodeOk(block.hash) THEN "panic"
             ELSE IF ~StartsWith(hash_to_binary_representation(HexDecode(block.hash)),
                                 DIFFICULTY_PREFIX) THEN "false"
             ELSE IF block.id # latest_block.id + 1 THEN "false"
             ELSE "true"

is_block_valid(self_blocks, block) ==
    IF self_blocks = <<>> THEN "panic"
    ELSE LET latest_block == Last(self_blocks)
         IN  IF block.previous_hash # latest_block.hash THEN "false"
             ELSE IF ~HexDecodeOk(block.hash) THEN "panic"
             ELSE IF ~StartsWith(hash_to_binary_representation(HexDecode(block.hash)),
                                 DIFFICULTY_PREFIX) THEN "false"
             ELSE IF block.id # latest_block.id + 1 THEN "false"
             ELSE IF HexEncode(calculate_hash(block.id, block.timestamp,
                                              block.previous_hash, block.data,
                                              block.nonce)) # block.hash THEN "false"
             ELSE "true"

\* App::is_chain_valid: Iterator::all stops at the first block that is not valid
RECURSIVE is_chain_valid(_, _)
is_chain_valid(self_blocks, chain) ==
    IF chain = <<>> THEN "true"
    ELSE LET r == is_block_valid(self_blocks, Head(chain))
         IN  IF r = "true" THEN is_chain_valid(self_blocks, Tail(chain)) ELSE r

\* App::choose_chain: the chain returned, or the panic
Returned(chain) == [kind |-> "chain", chain |-> chain]

Panicked(msg) == [kind |-> "panic", msg |-> msg]

\* choose_chain that keeps local when remote alone is valid
choose_chain_KeepLocal(self_blocks, local, remote) ==
    LET is_local_valid == is_chain_valid(self_blocks, local)
        is_remote_valid == is_chain_valid(self_blocks, remote)
    IN  IF is_local_valid = "panic" \/ is_remote_valid = "panic"
        THEN Panicked("expect failed in is_block_valid")
        ELSE IF is_local_valid = "true" /\ is_remote_valid = "true"
             THEN IF Len(local) >= Len(remote) THEN Returned(local) ELSE Returned(remote)
        ELSE IF is_remote_valid = "true" /\ is_local_valid # "true" THEN Returned(local)
        ELSE IF is_remote_valid # "true" /\ is_local_valid = "true" THEN Returned(local)
        ELSE Panicked("local and remote chains are both invalid")

choose_chain(self_blocks, local, remote) ==
    LET is_local_valid == is_chain_valid(self_blocks, local)
        is_remote_valid == is_chain_valid(self_blocks, remote)
    IN  IF is_local_valid = "panic" \/ is_remote_valid = "panic"
        THEN Panicked("expect failed in is_block_valid")
        ELSE IF is_local_valid = "true" /\ is_remote_valid = "true"
             THEN IF Len(local) >= Len(remote) THEN Returned(local) ELSE Returned(remote)
        ELSE IF is_remote_valid = "true" /\ is_local_valid # "true" THEN Returned(remote)
        ELSE IF is_remote_valid # "true" /\ is_local_valid = "true" THEN Returned(local)
        ELSE Panicked("local and remote chains are both invalid")


(***************************************************************************)
(* The inputs the operations are applied to.                               *)
(***************************************************************************)
TamperedData == "tampered"

ToUpper(s) == [i \in 1..Len(s) |-> UpperHex[HexVal(s[i]) + 1]]

\* a block with the given fields and nonce, hashed but not mined
Forged(id, previous_hash, data, now, nonce) ==
    [id |-> id, timestamp |-> now, previous_hash |-> previous_hash, data |-> data,
     nonce |-> nonce,
     hash |-> HexEncode(calculate_hash(id, now, previous_hash, data, nonce))]

\* candidate blocks for a node whose chain is self_blocks
CandBlocks(self_blocks) ==
    IF self_blocks = <<>> THEN {genesis_block(1)}
    ELSE LET tip == Last(self_blocks)
             mined == NextBlock(self_blocks, 1)
         IN  {NextBlock(self_blocks, now) : now \in Timestamps}
             \cup {Forged(tip.id + 1, tip.hash, NewBlockData, 1, k) : k \in 0..2}
             \cup { [mined EXCEPT !.data = TamperedData],
                    [mined EXCEPT !.hash = ToUpper(@)],
                    [mined EXCEPT !.hash = GenesisPrev],
                    [mined EXCEPT !.hash = Tail(@)],
                    Block_new(tip.id + 2, tip.hash, NewBlockData, 1),
                    Block_new(tip.id + 1, GenesisPrev, NewBlockData, 1),
                    tip, self_blocks[1] }

\* candidate chains for a node whose chain is self_blocks; peers are the
\* chains of the other nodes
CandChains(self_blocks, peers) ==
    {<<>>, self_blocks} \cup peers
    \cup (IF self_blocks = <<>> THEN {}
          ELSE LET mined == NextBlock(self_blocks, 1)
               IN  {<<NextBlock(self_blocks, now)>> : now \in Timestamps}
                   \cup {Append(self_blocks, NextBlock(self_blocks, now)) :
                            now \in Timestamps}
                   \cup { <<mined, NextBlock(self_blocks, MaxTime)>>,
                          <<mined, [mined EXCEPT !.data = TamperedData]>>,
                          <<[mined EXCEPT !.hash = GenesisPrev]>>,
                          [self_blocks EXCEPT ![Len(self_blocks)].data = TamperedData],
                          SubSeq(self_blocks, 1, 1) })

\* candidate local chains for a node whose chain is self_blocks
LocalChains(self_blocks) ==
    {<<>>, self_blocks}
    \cup (IF self_blocks = <<>> THEN {}
          ELSE LET mined == NextBlock(self_blocks, 1)
               IN  { <<mined>>, <<mined, mined>>,
                     [self_blocks EXCEPT ![Len(self_blocks)].data = TamperedData] })

Peers(n) == {blocks[m] : m \in Nodes \ {n}}

(***************************************************************************)
(* The state: blocks[n] is node n's App.blocks, halted[n] says that node n *)
(* has panicked, and last records the operation applied last.  pc[n] is    *)
(* the place of node n in main, search[n] the proof-of-work search it is   *)
(* in, responses[n] the channel of (response_sender, response_rcv) and     *)
(* published[n] what it has published on the floodsub topic.               *)
(***************************************************************************)
NoSearch == [nonce |-> -1]

Init ==
    /\ blocks \in [Nodes -> {<<genesis_block(now)>> : now \in Timestamps}]
    /\ halted = [n \in Nodes |-> FALSE]
    /\ last = [op |-> "idle"]
    /\ pc = [n \in Nodes |-> "start"]
    /\ search = [n \in Nodes |-> NoSearch]
    /\ responses = [n \in Nodes |-> <<>>]
    /\ published = [n \in Nodes |-> <<>>]

(***************************************************************************)
(* The operations are called one at a time: a call is made when no result  *)
(* is pending, it records its arguments and its result in last, and Return *)
(* hands the result to the caller.                                         *)
(***************************************************************************)
Idle == last.op = "idle"

Return ==
    /\ ~Idle
    /\ last' = [op |-> "idle"]
    /\ UNCHANGED <<blocks, halted>>
    /\ UNCHANGED loopVars

\* the clock of a node does not run backwards: the values Utc::now() may
\* return when the tip of the chain was stamped at tip_time
Clock(tip_time) == {now \in Timestamps : now >= tip_time}

\* a push that puts the block in front of the chain
Push_Front(chain, block) == <<block>> \o chain

\* Vec::push: the block goes after the tip
Push(chain, block) == Append(chain, block)

\* App::generate_new_block
GenerateNewBlock(n) ==
    /\ Idle
    /\ UNCHANGED loopVars
    /\ ~halted[n]
    /\ Len(blocks[n]) < MaxChain
    /\ IF blocks[n] = <<>>
       THEN /\ halted' = [halted EXCEPT ![n] = TRUE]
            /\ blocks' = blocks
            /\ last' = [op |-> "generate_new_block", node |-> n, before |-> blocks[n],
                        panic |-> TRUE]
       ELSE /\ Last(blocks[n]).id + 1 < MaxChain
            /\ \E now \in Clock(Last(blocks[n]).timestamp) :
                  blocks' = [blocks EXCEPT ![n] = Push(@, NextBlock(@, now))]
            /\ halted' = halted
            /\ last' = [op |-> "generate_new_block", node |-> n, before |-> blocks[n],
                        panic |-> FALSE]

\* mine_block applied to any fields
MineBlock(n) ==
    /\ Idle
    /\ UNCHANGED loopVars
    /\ ~halted[n]
    /\ \E id \in 0..1, now \in Timestamps, data \in {NewBlockData, TamperedData},
          previous_hash \in {GenesisPrev, GenesisHash} :
          last' = [op |-> "mine_block", node |-> n, id |-> id, timestamp |-> now,
                   previous_hash |-> previous_hash, data |-> data,
                   mined |-> mine_block(id, now, previous_hash, data)]
    /\ UNCHANGED <<blocks, halted>>

\* App::is_block_valid applied to a candidate block
IsBlockValid(n) ==
    /\ Idle
    /\ UNCHANGED loopVars
    /\ ~halted[n]
    /\ \E block \in CandBlocks(blocks[n]) :
          LET result == is_block_valid(blocks[n], block)
          IN  /\ last' = [op |-> "is_block_valid", node |-> n, self_blocks |-> blocks[n],
                          block |-> block, result |-> result]
              /\ halted' = [halted EXCEPT ![n] = (result = "panic")]
    /\ UNCHANGED blocks

\* App::is_chain_valid applied to a candidate chain
IsChainValid(n) ==
    /\ Idle
    /\ UNCHANGED loopVars
    /\ ~halted[n]
    /\ \E chain \in CandChains(blocks[n], Peers(n)) :
          LET result == is_chain_valid(blocks[n], chain)
          IN  /\ last' = [op |-> "is_chain_valid", node |-> n, self_blocks |-> blocks[n],
                          chain |-> chain, result |-> result]
              /\ halted' = [halted EXCEPT ![n] = (result = "panic")]
    /\ UNCHANGED blocks

\* App::choose_chain applied to two chains
ChooseChainOn(n, local, remote) ==
    LET result == choose_chain(blocks[n], local, remote)
    IN  /\ last' = [op |-> "choose_chain", node |-> n, self_blocks |-> blocks[n],
                    local |-> local, remote |-> remote, result |-> result]
        /\ halted' = [halted EXCEPT ![n] = (result.kind = "panic")]
        /\ blocks' = blocks

ChooseChain(n) ==
    /\ Idle
    /\ UNCHANGED loopVars
    /\ ~halted[n]
    /\ \E local \in LocalChains(blocks[n]),
          remote \in CandChains(blocks[n], Peers(n)) :
          ChooseChainOn(n, local, remote)

\* two nodes exchange their chains: node n applies choose_chain to its own
\* chain and the chain of a peer
ExchangeChains(n) ==
    /\ Idle
    /\ UNCHANGED loopVars
    /\ ~halted[n]
    /\ \E m \in Nodes \ {n} : ChooseChainOn(n, blocks[n], blocks[m])

(***************************************************************************)
(* The handling of an inbound peer event that carries a candidate chain    *)
(* (replace_chain): the node's chain becomes what choose_chain returns for *)
(* its own chain and the candidate.  The ids are kept below MaxChain.      *)
(***************************************************************************)
ReplaceChain(n) ==
    /\ Idle
    /\ UNCHANGED loopVars
    /\ ~halted[n]
    /\ \E candidate \in CandChains(blocks[n], Peers(n)) :
          LET result == choose_chain(blocks[n], blocks[n], candidate)
          IN  /\ \A i \in 1..Len(candidate) : candidate[i].id < MaxChain
              /\ last' = [op |-> "replace_chain", node |-> n, before |-> blocks[n],
                          candidate |-> candidate, result |-> result]
              /\ halted' = [halted EXCEPT ![n] = (result.kind = "panic")]
              /\ blocks' = IF result.kind = "panic" THEN blocks
                            ELSE [blocks EXCEPT ![n] = result.chain]

(***************************************************************************)
(* Spec: the operations of one App, applied in any order to inputs drawn   *)
(* from the candidate sets.                                                *)
(***************************************************************************)
Next == \E n \in {"n1"} :
    \/ GenerateNewBlock(n)
    \/ MineBlock(n)
    \/ IsBlockValid(n)
    \/ IsChainValid(n)
    \/ ChooseChain(n)
    \/ ReplaceChain(n)
    \/ Return

Spec == Init /\ [][Next]_vars

(***************************************************************************)
(* SpecNet: the nodes mine their chains and exchange them.                 *)
(***************************************************************************)
NextNet == \E n \in Nodes :
    \/ GenerateNewBlock(n)
    \/ ExchangeChains(n)
    \/ Return

SpecNet == Init /\ [][NextNet]_vars

(***************************************************************************)
(* main, step by step.  After App::genesis it calls generate_new_block,    *)
(* whose proof-of-work search is a loop over the nonces run by main        *)
(* itself; when the block is pushed main goes on to its event loop.        *)
(***************************************************************************)
MaxRequests == 2

PeerIds == {"p1", "p2"}

Commands == {"ls p", "ls r", "create r", "publish r", "help"}

\* a search that jumps over every other nonce
NextNonce_Skip(nonce) == nonce + 2

\* nonce += 1
NextNonce(nonce) == nonce + 1

\* a channel that keeps only the newest message
Send_Overwrite(queue, resp) == <<resp>>

\* UnboundedSender::send on the channel made by mpsc::unbounded_channel
Send(queue, resp) == Append(queue, resp)

\* a publish that emits the message twice
Publish_Twice(topic, resp) == topic \o <<resp, resp>>

\* floodsub.publish(TOPIC, json): one message more on the topic
Publish(topic, resp) == Append(topic, resp)

\* main calls generate_new_block: Block::new reads the clock and mine_block
\* starts its search at nonce 0
StartMining(n) ==
    /\ pc[n] = "start"
    /\ ~halted[n]
    /\ \E now \in Clock(Last(blocks[n]).timestamp) :
          search' = [search EXCEPT ![n] =
                        [id |-> Last(blocks[n]).id + 1,
                         previous_hash |-> Last(blocks[n]).hash,
                         data |-> NewBlockData,
                         timestamp |-> now,
                         nonce |-> 0]]
    /\ pc' = [pc EXCEPT ![n] = "mining"]
    /\ UNCHANGED <<blocks, halted, last, responses, published>>

\* one turn of the loop of mine_block: the digest of the fields with the
\* nonce at hand; if its binary form starts with the prefix the block is
\* built and pushed, main drops the verdict of is_block_valid on it and
\* enters the event loop; otherwise the next nonce is tried
MineStep(n) ==
    /\ pc[n] = "mining"
    /\ ~halted[n]
    /\ LET s == search[n]
           hash == calculate_hash(s.id, s.timestamp, s.previous_hash, s.data, s.nonce)
       IN  IF StartsWith(hash_to_binary_representation(hash), DIFFICULTY_PREFIX)
           THEN /\ blocks' = [blocks EXCEPT ![n] =
                                 Push(@, [id |-> s.id, hash |-> HexEncode(hash),
                                          previous_hash |-> s.previous_hash,
                                          timestamp |-> s.timestamp, data |-> s.data,
                                          nonce |-> s.nonce])]
                /\ search' = [search EXCEPT ![n] = NoSearch]
                /\ pc' = [pc EXCEPT ![n] = "loop"]
           ELSE /\ search' = [search EXCEPT ![n].nonce = NextNonce(@)]
                /\ UNCHANGED <<blocks, pc>>
    /\ UNCHANGED <<halted, last, responses, published>>

\* the event loop draws a line of the operator: it is handed to the handler
\* of its command, or logged as unknown; none of the handlers is given app.
\* stdin is taken to stay open (at its end the expect on the line panics)
InputEvent(n) ==
    /\ pc[n] = "loop"
    /\ ~halted[n]
    /\ \E line \in Commands :
          last' = [op |-> "input", node |-> n, line |-> line]
    /\ UNCHANGED <<blocks, halted, pc, search, responses, published>>

\* the event loop draws the oldest response of the channel and publishes it
ResponseEvent(n) ==
    /\ pc[n] = "loop"
    /\ ~halted[n]
    /\ responses[n] # <<>>
    /\ published' = [published EXCEPT ![n] = Publish(@, Head(responses[n]))]
    /\ responses' = [responses EXCEPT ![n] = Tail(@)]
    /\ last' = [op |-> "response", node |-> n, resp |-> Head(responses[n]),
                before |-> blocks[n]]
    /\ UNCHANGED <<blocks, halted, pc, search>>

\* the event loop draws an event of the swarm: it is logged as unhandled
SwarmEvent(n) ==
    /\ pc[n] = "loop"
    /\ ~halted[n]
    /\ last' = [op |-> "swarm", node |-> n]
    /\ UNCHANGED <<blocks, halted, pc, search, responses, published>>

\* a peer asks for the chain: the behaviour, which holds response_sender,
\* sends one response carrying the chain of the node
PeerRequest(n) ==
    /\ pc[n] = "loop"
    /\ ~halted[n]
    /\ Len(responses[n]) + Len(published[n]) < MaxRequests
    /\ \E peer \in PeerIds :
          /\ responses' = [responses EXCEPT ![n] =
                               Send(@, [kind |-> "Response", receiver |-> peer,
                                        payload |-> blocks[n]])]
          /\ last' = [op |-> "peer_request", node |-> n, from |-> peer,
                      before |-> blocks[n], queue |-> responses[n]]
    /\ UNCHANGED <<blocks, halted, pc, search, published>>

NextMain == \E n \in {"n1"} :
    \/ StartMining(n)
    \/ MineStep(n)
    \/ InputEvent(n)
    \/ ResponseEvent(n)
    \/ SwarmEvent(n)
    \/ PeerRequest(n)

SpecMain == Init /\ [][NextMain]_vars

\* tokio::select! picks among the branches that are ready at random, so a
\* response that stays ready is drawn in the end; the search of mine_block
\* runs without a break
SpecMainFair ==
    /\ Init
    /\ [][NextMain]_vars
    /\ WF_vars(StartMining("n1"))
    /\ WF_vars(MineStep("n1"))
    /\ WF_vars(ResponseEvent("n1"))


(***************************************************************************)
(* SpecConv: the conversion of a digest to its binary form, applied to     *)
(* byte strings drawn from a sample, next to the miner and the validator   *)
(* that use it.                                                            *)
(***************************************************************************)
SampleBytes == {0, 1, 5, 7, 128, 255}

SampleHashes == {<<a, b, c>> : a \in SampleBytes, b \in SampleBytes, c \in {0, 255}}

\* hash_to_binary_representation applied to a byte string, and the test
\* binary_hash.starts_with(DIFFICULTY_PREFIX) on what it returns
HashToBinary(n) ==
    /\ Idle
    /\ ~halted[n]
    /\ \E hash \in SampleHashes :
          LET binary == hash_to_binary_representation(hash)
          IN  last' = [op |-> "hash_to_binary", node |-> n, hash |-> hash,
                       binary |-> binary,
                       passes |-> StartsWith(binary, DIFFICULTY_PREFIX)]
    /\ UNCHANGED <<blocks, halted>>
    /\ UNCHANGED loopVars

NextConv == \E n \in {"n1"} :
    \/ HashToBinary(n)
    \/ MineBlock(n)
    \/ IsBlockValid(n)
    \/ Return

SpecConv == Init /\ [][NextConv]_vars

(***************************************************************************)
(* The vocabulary of the properties: what the specification of the node    *)
(* calls a valid block and a valid chain, spelled out on the fields.       *)
(***************************************************************************)
\* the binary expansion of the hex string h starts with the difficulty prefix
ProofOfWork(h) ==
    /\ HexDecodeOk(h)
    /\ StartsWith(hash_to_binary_representation(HexDecode(h)), DIFFICULTY_PREFIX)

\* the digest recomputed from the fields of b is the hash b stores
DigestMatches(b) ==
    HexEncode(calculate_hash(b.id, b.timestamp, b.previous_hash, b.data, b.nonce)) = b.hash

\* block b is correctly linked to, numbered after, hashed and mined on p
FourHold(b, p) ==
    /\ b.previous_hash = p.hash
    /\ b.id = p.id + 1
    /\ DigestMatches(b)
    /\ ProofOfWork(b.hash)

\* every consecutive pair of the chain is a valid block on its predecessor
PairwiseValid(chain) == \A i \in 2..Len(chain) : FourHold(chain[i], chain[i - 1])

IsGenesis(b) ==
    /\ b.id = 0
    /\ b.previous_hash = GenesisPrev
    /\ b.data = GenesisData
    /\ b.nonce = GenesisNonce
    /\ b.hash = GenesisHash

\* a valid chain: it starts at genesis and every consecutive pair is valid
ValidChain(chain) == chain # <<>> /\ IsGenesis(chain[1]) /\ PairwiseValid(chain)

Payloads == {GenesisData, NewBlockData, TamperedData}

(***************************************************************************)
(* C1.  is_block_valid returns true exactly when the candidate's           *)
(* previous_hash is the tip's hash, its id is the tip's id plus one, the   *)
(* digest recomputed from its fields is its hash and the binary expansion  *)
(* of its hash starts with the difficulty prefix; a block that would be    *)
(* valid with another payload, and whose payload alone was changed, is     *)
(* rejected.                                                               *)
(***************************************************************************)
C1_BlockValidIffFourHold ==
    (last.op = "is_block_valid" /\ last.self_blocks # <<>>) =>
        /\ (last.result = "true") <=> FourHold(last.block, Last(last.self_blocks))
        /\ \A data \in Payloads \ {last.block.data} :
              FourHold([last.block EXCEPT !.data = data], Last(last.self_blocks))
                  => last.result = "false"

\* a mined block whose payload alone was changed has been rejected
C1_Witness ==
    /\ last.op = "is_block_valid"
    /\ last.self_blocks # <<>>
    /\ last.block.data = TamperedData
    /\ last.block.previous_hash = Last(last.self_blocks).hash
    /\ last.block.id = Last(last.self_blocks).id + 1
    /\ ProofOfWork(last.block.hash)
    /\ FourHold([last.block EXCEPT !.data = NewBlockData], Last(last.self_blocks))
    /\ last.result = "false"

(***************************************************************************)
(* C2.  For two valid chains local and remote, choose_chain returns remote *)
(* when remote is longer and local otherwise (a tie keeps local).          *)
(***************************************************************************)
C2_BothValidLongerWins ==
    (last.op = "choose_chain" /\ ValidChain(last.local) /\ ValidChain(last.remote)) =>
        last.result = Returned(IF Len(last.remote) > Len(last.local)
                               THEN last.remote ELSE last.local)

(***************************************************************************)
(* C3.  When exactly one of local and remote is a valid chain,             *)
(* choose_chain returns the valid one.                                     *)
(***************************************************************************)
C3_OnlyValidOneReturned ==
    (last.op = "choose_chain" /\ ValidChain(last.local) # ValidChain(last.remote)) =>
        last.result = Returned(IF ValidChain(last.local) THEN last.local
                               ELSE last.remote)

(***************************************************************************)
(* C4.  choose_chain ends in the fatal outcome exactly when neither local  *)
(* nor remote is a valid chain.                                            *)
(***************************************************************************)
C4_FatalIffNeitherValid ==
    (last.op = "choose_chain") =>
        ((last.result.kind = "panic")
            <=> (~ValidChain(last.local) /\ ~ValidChain(last.remote)))

(***************************************************************************)
(* C5.  is_chain_valid of a non-empty chain is true exactly when every     *)
(* block of the chain after the first is a valid block on the block before *)
(* it, whatever the node's own chain is.                                   *)
(***************************************************************************)
C5_ChainValidIffPairwise ==
    (last.op = "is_chain_valid" /\ last.chain # <<>>) =>
        ((last.result = "true") <=> PairwiseValid(last.chain))

(***************************************************************************)
(* C6.  is_chain_valid rejects the empty chain, and choose_chain never     *)
(* returns an empty remote chain in place of a non-empty local one.        *)
(***************************************************************************)
C6_EmptyChainRejected ==
    /\ (last.op = "is_chain_valid" /\ last.chain = <<>>) => last.result = "false"
    /\ (last.op = "choose_chain" /\ last.remote = <<>> /\ last.local # <<>>)
          => last.result # Returned(<<>>)

(***************************************************************************)
(* C7.  A chain that grew from genesis by mined appends alone is linked,   *)
(* numbered, hashed and mined pairwise; its first mined block has id 1,    *)
(* the genesis hash as previous_hash, and is valid on the chain [genesis]. *)
(***************************************************************************)
C7_MinedChainInvariant ==
    \A n \in Nodes :
        /\ IsGenesis(blocks[n][1])
        /\ PairwiseValid(blocks[n])
        /\ Len(blocks[n]) >= 2 =>
              /\ blocks[n][2].id = 1
              /\ blocks[n][2].previous_hash = GenesisHash
              /\ is_block_valid(SubSeq(blocks[n], 1, 1), blocks[n][2]) = "true"

\* a node has mined its chain to the full length
C7_Witness ==
    \E n \in Nodes :
        /\ Len(blocks[n]) = MaxChain
        /\ last.op = "generate_new_block"
        /\ last.node = n

(***************************************************************************)
(* C8.  When mine_block returns the nonce n and the hash h, h is the hex   *)
(* encoding of the digest of the four inputs and n, and the binary         *)
(* expansion of h starts with the difficulty prefix.                       *)
(***************************************************************************)
C8_MinedHashIsDigest ==
    (last.op = "mine_block") =>
        /\ last.mined.hash = HexEncode(calculate_hash(last.id, last.timestamp,
                                 last.previous_hash, last.data, last.mined.nonce))
        /\ ProofOfWork(last.mined.hash)

\* mine_block has returned after trying more than one nonce
C8_Witness == last.op = "mine_block" /\ last.mined.nonce > 0

(***************************************************************************)
(* C9.  Two nodes that each mined 2 blocks on the same genesis exchange    *)
(* their chains: choose_chain of a node's own chain and the other node's   *)
(* chain returns the own chain, and the node does not halt.                *)
(***************************************************************************)
C9_TieKeepsLocal ==
    \A n \in Nodes, m \in Nodes :
        ( /\ n # m
          /\ last.op = "choose_chain"
          /\ last.node = n
          /\ Len(blocks[n]) = 3
          /\ Len(blocks[m]) = 3
          /\ last.local = blocks[n]
          /\ last.remote = blocks[m] )
        => (last.result = Returned(blocks[n]) /\ ~halted[n])

(***************************************************************************)
(* C10.  After the handling of an inbound candidate chain the node's chain *)
(* is the candidate if the candidate wins (it alone is accepted by         *)
(* is_chain_valid, or both are and it is the longer), and is the chain of  *)
(* before otherwise.                                                       *)
(***************************************************************************)
CandidateWins(self_blocks, candidate) ==
    /\ is_chain_valid(self_blocks, candidate) = "true"
    /\ \/ is_chain_valid(self_blocks, self_blocks) # "true"
       \/ Len(candidate) > Len(self_blocks)

C12_InvalidInboundRejected ==
    /\ (last.op = "replace_chain" /\ ~ValidChain(last.candidate)) =>
          (~halted[last.node] /\ blocks[last.node] = last.before)
    /\ (last.op = "is_block_valid" /\ ~HexDecodeOk(last.block.hash)) =>
          (last.result = "false" /\ ~halted[last.node])

(***************************************************************************)
(* C13.  The chain of a node is append-only: in every step that is not the *)
(* replacement of the whole chain after an inbound candidate, the chain of *)
(* before is a prefix of the chain of after, and the chain grows only by   *)
(* one block at a time, a block mined on the tip of before.                *)
(***************************************************************************)
IsPrefix(before, after) ==
    /\ Len(before) <= Len(after)
    /\ SubSeq(after, 1, Len(before)) = before

AppendOnlyStep(n) ==
    /\ IsPrefix(blocks[n], blocks'[n])
    /\ Len(blocks'[n]) > Len(blocks[n]) =>
          /\ blocks[n] # <<>>
          /\ Len(blocks'[n]) = Len(blocks[n]) + 1
          /\ FourHold(Last(blocks'[n]), Last(blocks[n]))

C13_AppendOnly ==
    [][\A n \in Nodes : last'.op # "replace_chain" => AppendOnlyStep(n)]_vars

\* a block has been appended to a chain of two blocks
C13_Witness ==
    /\ last.op = "generate_new_block"
    /\ ~last.panic
    /\ Len(last.before) = 2
    /\ blocks[last.node] = Append(last.before, Last(blocks[last.node]))

(***************************************************************************)
(* C14.  The genesis block is the same on every node, whenever the nodes   *)
(* were started: the same id, previous_hash, payload, nonce, hash and      *)
(* timestamp; and the hash stored in it is the digest of its fields.       *)
(***************************************************************************)
C14_GenesisIdentical ==
    \A n \in Nodes, m \in Nodes :
        /\ blocks[n][1] = blocks[m][1]
        /\ DigestMatches(blocks[n][1])

(***************************************************************************)
(* C15.  The search of mine_block tries the nonces 0, 1, 2, ... in         *)
(* increasing order and returns the least nonce whose digest satisfies the *)
(* difficulty prefix: no smaller nonce satisfies it, and the search ends   *)
(* when some nonce does.                                                   *)
(***************************************************************************)
\* the digest of the fields f with nonce m satisfies the difficulty prefix
SatisfiesPrefix(f, m) ==
    StartsWith(hash_to_binary_representation(
                   calculate_hash(f.id, f.timestamp, f.previous_hash, f.data, m)),
               DIFFICULTY_PREFIX)

\* the nonces below the one at hand have been tried and have failed
TriedInOrder(n) ==
    pc[n] = "mining" =>
        /\ search[n].nonce >= 0
        /\ \A m \in 0..(search[n].nonce - 1) : ~SatisfiesPrefix(search[n], m)

\* the block that main has mined carries the least nonce that satisfies
LeastNonceMined(n) ==
    pc[n] = "loop" =>
        LET b == Last(blocks[n])
        IN  /\ SatisfiesPrefix(b, b.nonce)
            /\ \A m \in 0..(b.nonce - 1) : ~SatisfiesPrefix(b, m)

\* the search moves from a nonce to the next one only
NonceByOne(n) ==
    (pc[n] = "mining" /\ pc'[n] = "mining") =>
        search'[n].nonce \in {search[n].nonce, search[n].nonce + 1}

C15_LeastNonce ==
    /\ [](\A n \in Nodes : TriedInOrder(n) /\ LeastNonceMined(n))
    /\ [][\A n \in Nodes : NonceByOne(n)]_vars
    /\ \A n \in {"n1"} : (pc[n] = "mining") ~> (pc[n] = "loop")

\* a search has ended on a nonce that is not the first one tried
C15_Witness ==
    /\ pc["n1"] = "loop"
    /\ Last(blocks["n1"]).nonce >= 1
    /\ Last(blocks["n1"]).id = 1

(***************************************************************************)
(* C16.  Mining does not starve the events of the peers and the operator:  *)
(* while a proof-of-work search is in progress the event loop can still    *)
(* take an operator line and a swarm event.                                *)
(***************************************************************************)
C16_LoopRunsWhileMining ==
    \A n \in {"n1"} :
        pc[n] = "mining" => (ENABLED InputEvent(n) /\ ENABLED SwarmEvent(n))

(***************************************************************************)
(* C17.  Every response put on the channel of outbound responses is drawn  *)
(* by the event loop in the end and published on the broadcast topic       *)
(* exactly once, in the order of sending; the handling of a response       *)
(* leaves the chain of the node as it was.                                 *)
(***************************************************************************)
\* the responses of node n in the order of sending: the published ones,
\* then the waiting ones
Outbound(n) == published[n] \o responses[n]

\* no response is lost, doubled or overtaken: drawing one moves it from the
\* head of the channel to the end of the topic
InOrderStep(n) ==
    /\ IsPrefix(Outbound(n), Outbound(n)')
    /\ IsPrefix(published[n], published'[n])
    /\ responses'[n] # responses[n] /\ Len(responses'[n]) <= Len(responses[n]) =>
          /\ Outbound(n)' = Outbound(n)
          /\ published'[n] = Append(published[n], Head(responses[n]))

ResponseKeepsChain ==
    last.op = "response" =>
        /\ blocks[last.node] = last.before
        /\ published[last.node] # <<>>
        /\ Last(published[last.node]) = last.resp

RECURSIVE BitValue(_)
BitValue(s) ==
    IF s = <<>> THEN 0
    ELSE 2 * BitValue(SubSeq(s, 1, Len(s) - 1)) + (IF s[Len(s)] = "1" THEN 1 ELSE 0)

\* the number of digits of the numeral of byte c without leading zeros
Width(c) == CHOOSE w \in 1..8 : c < 2 ^ w /\ (w = 1 \/ c >= 2 ^ (w - 1))

\* where the numeral of byte i of hash starts in the concatenation
RECURSIVE Offset(_, _)
Offset(hash, i) == IF i = 1 THEN 0 ELSE Offset(hash, i - 1) + Width(hash[i - 1])

RendersUnpadded(hash, binary) ==
    /\ Len(binary) = Offset(hash, Len(hash) + 1)
    /\ \A i \in 1..Len(hash) :
          LET piece == SubSeq(binary, Offset(hash, i) + 1, Offset(hash, i) + Width(hash[i]))
          IN  /\ \A j \in 1..Len(piece) : piece[j] \in {"0", "1"}
              /\ Len(piece) = 1 \/ piece[1] = "1"
              /\ BitValue(piece) = hash[i]

C18_UnpaddedBinarySharedByMinerAndValidator ==
    /\ last.op = "hash_to_binary" =>
          /\ RendersUnpadded(last.hash, last.binary)
          /\ last.hash = <<5, 0, 255>> =>
                last.binary = <<"1","0","1", "0", "1","1","1","1","1","1","1","1">>
    /\ last.op = "mine_block" => ProofOfWork(last.mined.hash)
    /\ (last.op = "is_block_valid" /\ last.self_blocks # <<>>
          /\ \E now \in Timestamps : last.block = NextBlock(last.self_blocks, now)) =>
          last.result = "true"

\* the conversion has been applied to the bytes 5, 0, 255
C18_Witness ==
    /\ last.op = "hash_to_binary"
    /\ last.hash = <<5, 0, 255>>
    /\ Len(last.binary) = 12

(***************************************************************************)
(* C19.  With the prefix "00" and the unpadded conversion a digest passes  *)
(* the proof-of-work test exactly when its first two bytes are both zero:  *)
(* a digest whose first byte is not zero is rejected, and so is one whose  *)
(* first byte is zero and whose second is not, however many leading zero   *)
(* bits it has.                                                            *)
(***************************************************************************)
\* the digest found by the search is the first one whose two leading bytes
\* are zero
MinedOnTwoZeroBytes ==
    LET TwoZero(m) ==
            LET d == calculate_hash(last.id, last.timestamp, last.previous_hash,
                                    last.data, m)
            IN  d[1] = 0 /\ d[2] = 0
    IN  /\ TwoZero(last.mined.nonce)
        /\ \A m \in 0..(last.mined.nonce - 1) : ~TwoZero(m)

C19_PassesIffTwoZeroBytes ==
    /\ last.op = "hash_to_binary" =>
          (last.passes <=> (last.hash[1] = 0 /\ last.hash[2] = 0))
    /\ last.op = "mine_block" => MinedOnTwoZeroBytes

\* a digest with fifteen leading zero bits has been rejected
C19_Witness ==
    /\ last.op = "hash_to_binary"
    /\ last.hash[1] = 0
    /\ last.hash[2] = 1
    /\ ~last.passes

(***************************************************************************)
(* C20.  In every reachable state the chain of a node is not empty and is  *)
(* accepted by is_chain_valid when the node checks it, so that choose_chain *)
(* with the own chain as local never ends in the fatal branch, whatever    *)
(* the remote chain is.                                                    *)
(***************************************************************************)
C20_OwnChainAccepted ==
    /\ \A n \in Nodes :
          /\ blocks[n] # <<>>
          /\ is_chain_valid(blocks[n], blocks[n]) = "true"
    /\ (last.op = "choose_chain" /\ last.local = last.self_blocks) =>
          last.result.kind # "panic"

=============================================================================
